---------------------------- MODULE Spec2Model ----------------------------
(***************************************************************************)
(* A model of the proof engine of cyclegg (src/src/goal.rs): the goal      *)
(* (e-graph, rewrites, local context, scrutinee queue), the smaller-tuple  *)
(* condition of synthesized lemmas, split_ite, case_split and the driver   *)
(* loop of prove.                                                          *)
(*                                                                         *)
(* A Symbol is modelled by the sequence of its hyphen-separated segments:  *)
(* "x-20-31" is <<"x", "20", "31">>.  Rendering joins the segments with a  *)
(* hyphen and parsing splits at the hyphens, so two symbols are equal      *)
(* exactly when their segment sequences are equal.                         *)
(***************************************************************************)
EXTENDS Integers, Sequences, FiniteSets, TLC

VARIABLES
  state,      \* prove: the work stack `state` (a Vec<Goal>, top = last)
  goal,       \* prove: the local `goal` being processed
  pc,         \* prove: position in the driver loop
  outcome,    \* prove: the returned Outcome, "NONE" while running
  open,       \* goals constructed (by top or case_split) and not yet discharged or split
  tuple,      \* SmallerVar.0 of the condition under test
  subst,      \* the substitution handed to SmallerVar::check
  fired       \* the last answer of SmallerVar::check: applications it let through

vars == <<state, goal, pc, outcome, open, tuple, subst, fired>>

-----------------------------------------------------------------------------
(* Bounds of the model *)

\* Saturation of one goal's path may expose at most this many ite nodes.
MaxIte == 3

\* Expressions enumerated from an e-class are at most this deep.
MaxExprDepth == 3

-----------------------------------------------------------------------------
(* Symbols, types, contexts *)

Sym(s) == <<s>>

BOUND_EXCEEDED == <<"__">>
TRUE_SYM == <<"true">>
FALSE_SYM == <<"false">>
ITE == <<"ite">>
BOOL_TYPE == [args |-> <<>>, ret |-> "Bool"]

\* config.rs: CONFIG.max_split_depth
MAX_SPLIT_DEPTH == 2

Dt(n) == [args |-> <<>>, ret |-> n]
Fn(as, r) == [args |-> as, ret |-> r]

\* Type::datatype(): the datatype name, or an error for a function type
DatatypeOk(ty) == ty.args = <<>>
Datatype(ty) == ty.ret

\* Type::args(): the parameter types of a function type
Args(ty) == ty.args

\* ast.rs var_depth: the number of '-' separators in the name
var_depth(name) == Len(name) - 1

\* ast.rs is_descendant: child's name is ancestor's name followed by a
\* '-'-delimited trace
is_descendant(child, ancestor) ==
  /\ Len(child) > Len(ancestor)
  /\ SubSeq(child, 1, Len(ancestor)) = ancestor

\* to_wildcard: the pattern variable ?x of symbol x
to_wildcard(x) == <<"?">> \o x
IsWildcard(op) == Len(op) > 0 /\ op[1] = "?"

\* variant of CtxInsert that binds nothing; C8 has to tell the two apart
CtxInsertNot(ctx, k, v) == ctx

CtxInsert(ctx, k, v) == [x \in (DOMAIN ctx) \cup {k} |-> IF x = k THEN v ELSE ctx[x]]
CtxRemove(ctx, k) == [x \in (DOMAIN ctx) \ {k} |-> ctx[x]]
EmptyCtx == [x \in {} |-> Dt("Nat")]

\* The environment: datatype name -> ordered constructor list
Env == [Nat |-> <<Sym("Z"), Sym("S")>>,
        List |-> <<Sym("Nil"), Sym("Cons")>>,
        Bool |-> <<TRUE_SYM, FALSE_SYM>>]

\* The global context: constructor -> type
GlobalContext ==
  (Sym("Z") :> Dt("Nat")) @@ (Sym("S") :> Fn(<<Dt("Nat")>>, "Nat")) @@
  (Sym("Nil") :> Dt("List")) @@
  (Sym("Cons") :> Fn(<<Dt("Nat"), Dt("List")>>, "List")) @@
  (TRUE_SYM :> Dt("Bool")) @@ (FALSE_SYM :> Dt("Bool"))

-----------------------------------------------------------------------------
(* Expressions *)

T(op, kids) == [op |-> op, kids |-> kids]
Leaf(op) == [op |-> op, kids |-> <<>>]

-----------------------------------------------------------------------------
(* The e-graph: e-nodes [op, kids, id] with class ids, and a union-find    *)
(* kept fully compressed (uf[i+1] is the canonical id of class i).         *)

EmptyEg == [nodes |-> {}, uf |-> <<>>]

Find(eg, i) == eg.uf[i + 1]

Canon(eg, n) ==
  [op |-> n.op,
   kids |-> [k \in DOMAIN n.kids |-> Find(eg, n.kids[k])],
   id |-> Find(eg, n.id)]

\* Option::None of a failed lookup
NoId == -1

\* EGraph::lookup: the class of an e-node, if it is there
Lookup(eg, op, kids) ==
  LET ck == [k \in DOMAIN kids |-> Find(eg, kids[k])]
      hit == {n \in eg.nodes : n.op = op /\ Canon(eg, n).kids = ck}
  IN IF hit = {} THEN NoId ELSE Find(eg, (CHOOSE n \in hit : TRUE).id)

\* EGraph::add: insert an e-node, sharing an equal one
Add(eg, op, kids) ==
  LET ck == [k \in DOMAIN kids |-> Find(eg, kids[k])]
      old == Lookup(eg, op, kids)
      new == Len(eg.uf)
  IN IF old # NoId
       THEN [eg |-> eg, id |-> old]
       ELSE [eg |-> [nodes |-> eg.nodes \cup {[op |-> op, kids |-> ck, id |-> new]},
                     uf |-> Append(eg.uf, new)],
             id |-> new]

\* EGraph::union: the merged class keeps the smaller id
Union(eg, a, b) ==
  LET ra == Find(eg, a)
      rb == Find(eg, b)
      to == IF ra < rb THEN ra ELSE rb
      from == IF ra < rb THEN rb ELSE ra
  IN IF ra = rb THEN eg
     ELSE [eg EXCEPT !.uf = [i \in DOMAIN eg.uf |-> IF eg.uf[i] = from THEN to ELSE eg.uf[i]]]

\* EGraph::rebuild: canonicalize the e-nodes and restore congruence
RECURSIVE Rebuild(_)
Rebuild(eg) ==
  LET ns == {Canon(eg, n) : n \in eg.nodes}
      clash == {p \in ns \X ns : p[1].op = p[2].op /\ p[1].kids = p[2].kids /\ p[1].id < p[2].id}
  IN IF clash = {} THEN [eg EXCEPT !.nodes = ns]
     ELSE LET p == CHOOSE q \in clash : TRUE
          IN Rebuild(Union([eg EXCEPT !.nodes = ns], p[1].id, p[2].id))

\* EGraph::add_expr: insert a term bottom-up
RECURSIVE AddExpr(_, _)
RECURSIVE AddArgs(_, _, _)
AddArgs(eg, ts, ids) ==
  IF ts = <<>> THEN [eg |-> eg, ids |-> ids]
  ELSE LET r == AddExpr(eg, Head(ts))
       IN AddArgs(r.eg, Tail(ts), Append(ids, r.id))
AddExpr(eg, t) ==
  LET r == AddArgs(eg, t.kids, <<>>)
  IN Add(r.eg, t.op, r.ids)

\* EGraph::lookup_expr
RECURSIVE LookupExpr(_, _)
LookupExpr(eg, t) ==
  LET ids == [k \in DOMAIN t.kids |-> LookupExpr(eg, t.kids[k])]
  IN IF \E k \in DOMAIN ids : ids[k] = NoId THEN NoId ELSE Lookup(eg, t.op, ids)

\* EGraph::total_size: the number of e-nodes
total_size(eg) == Cardinality(eg.nodes)

\* the e-nodes of a class (egraph[id].nodes)
ClassNodes(eg, id) == {n \in eg.nodes : Find(eg, n.id) = Find(eg, id)}

\* variant of remove_node that erases nothing; C17 has to tell the two apart
remove_nodeKeep(eg, op, kids) == eg

\* egraph.rs remove_node: erase one e-node from its class
remove_node(eg, op, kids) ==
  [eg EXCEPT !.nodes = {n \in eg.nodes : ~(n.op = op /\ n.kids = kids)}]

-----------------------------------------------------------------------------
(* Expressions of a class, patterns, extraction *)

RECURSIVE SeqProduct(_)
\* all sequences drawing the k-th element from the k-th set
SeqProduct(sets) ==
  IF sets = <<>> THEN {<<>>}
  ELSE {<<h>> \o t : h \in Head(sets), t \in SeqProduct(Tail(sets))}

\* egraph.rs get_all_expressions: the terms of a class, bounded in depth
RECURSIVE AllExprs(_, _, _)
AllExprs(eg, id, d) ==
  IF d = 0 THEN {}
  ELSE UNION {
         {T(n.op, ks) : ks \in SeqProduct([k \in DOMAIN n.kids |-> AllExprs(eg, n.kids[k], d - 1)])}
         : n \in ClassNodes(eg, id)}

RECURSIVE AstSize(_)
RECURSIVE SumSizes(_)
SumSizes(ts) == IF ts = <<>> THEN 0 ELSE AstSize(Head(ts)) + SumSizes(Tail(ts))
\* egg AstSize: the number of nodes of a term
AstSize(t) == 1 + SumSizes(t.kids)

\* Extractor::find_best under AstSize: the representatives of least size
BestExprs(eg, id) ==
  LET all == AllExprs(eg, id, MaxExprDepth)
  IN {t \in all : \A u \in all : AstSize(t) <= AstSize(u)}

\* a set as a sequence, in a fixed order
RECURSIVE SetToSeq(_)
SetToSeq(S) ==
  IF S = {} THEN <<>>
  ELSE LET x == CHOOSE y \in S : TRUE IN <<x>> \o SetToSeq(S \ {x})

\* ast.rs to_pattern: every leaf that is_var becomes the wildcard of its name
RECURSIVE to_pattern(_, _)
to_pattern(t, isVar) ==
  IF t.kids = <<>>
    THEN (IF t.op \in isVar THEN Leaf(to_wildcard(t.op)) ELSE t)
    ELSE T(t.op, [k \in DOMAIN t.kids |-> to_pattern(t.kids[k], isVar)])

\* Pattern::vars
RECURSIVE PatVars(_)
PatVars(p) ==
  IF p.kids = <<>>
    THEN (IF IsWildcard(p.op) THEN {p.op} ELSE {})
    ELSE UNION {PatVars(p.kids[k]) : k \in DOMAIN p.kids}

\* Expr::to_string of a term as a symbol: a leaf prints as its name, an
\* application "(f a b)" is the name of no variable
ExprName(t) == IF t.kids = <<>> THEN t.op ELSE <<"(">> \o t.op

-----------------------------------------------------------------------------
(* SmallerVar *)

\* SmallerVar::smaller_tuple on pairs <<var, expr>>
RECURSIVE SmallerLoop(_, _)
SmallerLoop(pairs, has_strictly_smaller) ==
  IF pairs = <<>> THEN has_strictly_smaller
  ELSE LET var_name == Head(pairs)[1]
           expr_name == ExprName(Head(pairs)[2])
       IN IF is_descendant(expr_name, var_name)
            THEN SmallerLoop(Tail(pairs), TRUE)
            ELSE IF expr_name # var_name THEN FALSE
                 ELSE SmallerLoop(Tail(pairs), has_strictly_smaller)

\* variant of smaller_tuple that starts from has_strictly_smaller = true;
\* C5 has to tell the two apart
smaller_tupleLax(pairs) == SmallerLoop(pairs, TRUE)

smaller_tuple(pairs) == SmallerLoop(pairs, FALSE)

\* the pairs SmallerVar::check builds: the variables of the tuple the
\* substitution binds, each with the expression extracted from its class
RECURSIVE CheckPairs(_, _, _)
CheckPairs(tup, sub, best) ==
  IF tup = <<>> THEN <<>>
  ELSE LET x == Head(tup)
           rest == CheckPairs(Tail(tup), sub, best)
       IN IF to_wildcard(x) \in DOMAIN sub
            THEN <<(<<x, best[sub[to_wildcard(x)]]>>)>> \o rest
            ELSE rest

\* SmallerVar::check
check(tup, sub, best) == smaller_tuple(CheckPairs(tup, sub, best))

-----------------------------------------------------------------------------
(* Goal.  env and global_context are the same in every goal of a run and   *)
(* are the definitions Env and GlobalContext.                              *)

\* variant of add_scrutinee whose bound is one deeper; C6 has to tell the
\* two apart
add_scrutineeDeeper(g, var, ty, depth) ==
  IF DatatypeOk(ty) /\ Datatype(ty) \in DOMAIN Env
    THEN IF depth <= MAX_SPLIT_DEPTH
           THEN [g EXCEPT !.scrutinees = Append(@, var)]
           ELSE [g EXCEPT !.scrutinees = Append(@, BOUND_EXCEEDED)]
    ELSE g

\* Goal::add_scrutinee
add_scrutinee(g, var, ty, depth) ==
  IF DatatypeOk(ty) /\ Datatype(ty) \in DOMAIN Env
    THEN IF depth < MAX_SPLIT_DEPTH
           THEN [g EXCEPT !.scrutinees = Append(@, var)]
           ELSE [g EXCEPT !.scrutinees = Append(@, BOUND_EXCEEDED)]
    ELSE g

\* Goal::top, the loop over params
RECURSIVE TopParams(_, _)
TopParams(g, params) ==
  IF params = <<>> THEN g
  ELSE LET p == Head(params)
           g1 == add_scrutinee(g, p.name, p.ty, 0)
           g2 == [g1 EXCEPT !.local_context = CtxInsert(@, p.name, p.ty)]
       IN TopParams(g2, Tail(params))

\* Goal::top
top(lhs, rhs, params, rewrites) ==
  LET e1 == AddExpr(EmptyEg, lhs).eg
      e2 == AddExpr(e1, rhs).eg
      eg == Rebuild(e2)
      res == [name |-> <<>>,
              egraph |-> eg,
              rewrites |-> rewrites,
              local_context |-> EmptyCtx,
              scrutinees |-> <<>>,
              lhs_id |-> LookupExpr(eg, lhs),
              rhs_id |-> LookupExpr(eg, rhs)]
  IN TopParams(res, params)

\* Goal::done
done(g) == Find(g.egraph, g.lhs_id) = Find(g.egraph, g.rhs_id)

\* The guard classes of the ite e-nodes of an e-graph
IteGuards(eg) == {Find(eg, n.kids[1]) : n \in {m \in eg.nodes : m.op = ITE /\ Len(m.kids) = 3}}

\* One run of the rewrites that equates the two sides
SatProve(g) == Rebuild(Union(g.egraph, g.lhs_id, g.rhs_id))

\* Applier for a pattern: instantiate it under a substitution and add it
RECURSIVE InstPat(_, _, _)
RECURSIVE InstArgs(_, _, _, _)
InstArgs(eg, ps, sigma, ids) ==
  IF ps = <<>> THEN [eg |-> eg, ids |-> ids]
  ELSE LET r == InstPat(eg, Head(ps), sigma)
       IN InstArgs(r.eg, Tail(ps), sigma, Append(ids, r.id))
InstPat(eg, pat, sigma) ==
  IF IsWildcard(pat.op) THEN [eg |-> eg, id |-> Find(eg, sigma[pat.op])]
  ELSE LET r == InstArgs(eg, pat.kids, sigma, <<>>)
       IN Add(r.eg, pat.op, r.ids)

\* does a term mention the operator op
RECURSIVE Mentions(_, _)
Mentions(t, op) == t.op = op \/ \E k \in DOMAIN t.kids : Mentions(t.kids[k], op)

\* the rewrites (f ?x) => ... whose right-hand side builds an ite
IteRules(rewrites) ==
  {k \in DOMAIN rewrites :
     /\ Mentions(rewrites[k].applier, ITE)
     /\ Len(rewrites[k].searcher.kids) = 1
     /\ IsWildcard(rewrites[k].searcher.kids[1].op)}

\* apply a rewrite (f ?x) => rhs to the matches in `nodes`
RECURSIVE ApplyAll(_, _, _)
ApplyAll(eg, rule, nodes) ==
  IF nodes = <<>> THEN eg
  ELSE LET n == Head(nodes)
           sigma == (rule.searcher.kids[1].op :> n.kids[1])
           r == InstPat(eg, rule.applier, sigma)
       \* (the binder has TLC evaluate the merged e-graph once)
       IN CHOOSE out \in {ApplyAll(e2, rule, Tail(nodes)) :
                            e2 \in {Union(r.eg, n.id, r.id)}} : TRUE

\* One iteration of the runner on the rewrites that build an ite: each is
\* applied to all its matches, then the e-graph is rebuilt
\* (the matches are those found in `found`, the e-graph as the iteration
\* began: the runner searches with every rewrite before it applies any)
RECURSIVE IterLoop(_, _, _, _)
IterLoop(eg, found, rewrites, ks) ==
  IF ks = <<>> THEN eg
  ELSE LET rule == rewrites[Head(ks)]
           ms == {n \in found.nodes : n.op = rule.searcher.op /\ Len(n.kids) = 1}
       IN CHOOSE out \in {IterLoop(e2, found, rewrites, Tail(ks)) :
                            e2 \in {ApplyAll(eg, rule, SetToSeq(ms))}} : TRUE

SatIte(g, eg) ==
  CHOOSE out \in {Rebuild(e2) :
                    e2 \in {IterLoop(eg, eg, g.rewrites, SetToSeq(IteRules(g.rewrites)))}} : TRUE

NumIte(eg) == Cardinality({n \in eg.nodes : n.op = ITE})

\* Goal::saturate: the e-graphs the runner can hand back, for the rewrite
\* systems and resource limits the model covers: nothing new, the two
\* sides equated, or one or two iterations that unfold a conditional
SatResults(g) ==
  {g.egraph, SatProve(g)}
    \cup (IF IteRules(g.rewrites) # {} /\ NumIte(g.egraph) + 1 <= MaxIte
           THEN {SatIte(g, g.egraph)} ELSE {})
    \cup (IF IteRules(g.rewrites) # {} /\ NumIte(g.egraph) + 2 <= MaxIte
           THEN {SatIte(g, SatIte(g, g.egraph))} ELSE {})

\* Goal::mk_lemma_rewrites, the body of the two loops for one pair
LemmaOf(g, lhs_expr, rhs_expr) ==
  LET is_var == DOMAIN g.local_context
      lhs == to_pattern(lhs_expr, is_var)
      rhs == to_pattern(rhs_expr, is_var)
      condition == g.scrutinees
      name == <<lhs_expr, rhs_expr>>
  IN IF PatVars(rhs) \subseteq PatVars(lhs)
       THEN <<[kind |-> "lemma", name |-> name, searcher |-> lhs, applier |-> rhs, condition |-> condition]>>
       ELSE IF PatVars(lhs) \subseteq PatVars(rhs)
              THEN <<[kind |-> "lemma", name |-> name, searcher |-> rhs, applier |-> lhs, condition |-> condition]>>
              ELSE <<>>

RECURSIVE LemmaLoop(_, _)
LemmaLoop(g, pairs) ==
  IF pairs = <<>> THEN <<>>
  ELSE LemmaOf(g, Head(pairs)[1], Head(pairs)[2]) \o LemmaLoop(g, Tail(pairs))

\* Goal::mk_lemma_rewrites
mk_lemma_rewrites(g) ==
  LET lhs_id == Find(g.egraph, g.lhs_id)
      rhs_id == Find(g.egraph, g.rhs_id)
      ls == SetToSeq(AllExprs(g.egraph, lhs_id, MaxExprDepth))
      rs == SetToSeq(AllExprs(g.egraph, rhs_id, MaxExprDepth))
      pairs == [k \in 1..(Len(ls) * Len(rs)) |->
                  <<ls[((k - 1) \div Len(rs)) + 1], rs[((k - 1) % Len(rs)) + 1]>>]
  IN LemmaLoop(g, pairs)

\* variant of irreducible_guards for which only true and false reduce a
\* guard; C19 has to tell the two apart
irreducible_guardsConstants(g) ==
  {guard_id \in IteGuards(g.egraph) :
     ~(\E n \in ClassNodes(g.egraph, guard_id) : n.op \in {TRUE_SYM, FALSE_SYM})}

\* Goal::split_ite, the guard classes that are irreducible
irreducible_guards(g) ==
  LET reducible == {g.scrutinees[k] : k \in DOMAIN g.scrutinees} \cup {TRUE_SYM, FALSE_SYM}
  IN {guard_id \in IteGuards(g.egraph) :
        ~(\E n \in ClassNodes(g.egraph, guard_id) : n.op \in reducible)}

\* variant of SplitIteLoop that pushes the guard variable to the back of
\* the queue; C11 has to tell the two apart
RECURSIVE SplitIteLoopBack(_, _)
SplitIteLoopBack(g, guards) ==
  IF guards = <<>> THEN g
  ELSE LET guard_id == Head(guards)
           fresh_var == <<"g", ToString(guard_id)>>
           r == Add(g.egraph, fresh_var, <<>>)
           g1 == [g EXCEPT !.local_context = CtxInsert(@, fresh_var, BOOL_TYPE),
                           !.scrutinees = Append(@, fresh_var),
                           !.egraph = Union(r.eg, guard_id, Find(r.eg, r.id))]
       IN SplitIteLoopBack(g1, Tail(guards))

\* Goal::split_ite, the loop that adds one scrutinee per irreducible guard
RECURSIVE SplitIteLoop(_, _)
SplitIteLoop(g, guards) ==
  IF guards = <<>> THEN g
  ELSE LET guard_id == Head(guards)
           fresh_var == <<"g", ToString(guard_id)>>
           r == Add(g.egraph, fresh_var, <<>>)
           g1 == [g EXCEPT !.local_context = CtxInsert(@, fresh_var, BOOL_TYPE),
                           !.scrutinees = <<fresh_var>> \o @,
                           !.egraph = Union(r.eg, guard_id, Find(r.eg, r.id))]
       IN SplitIteLoop(g1, Tail(guards))

\* the orders in which a HashSet can be iterated
Orders(S) == {q \in [1..Cardinality(S) -> S] : \A x \in S : \E k \in DOMAIN q : q[k] = x}

\* Goal::split_ite, iterating the irreducible guards in the order `guards`
split_ite(g, guards) ==
  LET g1 == SplitIteLoop(g, guards)
  IN [g1 EXCEPT !.egraph = Rebuild(@)]

\* Goal::case_split: every unwrap() of the function succeeds
CaseSplitOk(g) ==
  LET var == Head(g.scrutinees)
  IN /\ g.scrutinees # <<>>
     /\ Lookup(g.egraph, var, <<>>) # NoId
     /\ var \in DOMAIN g.local_context
     /\ DatatypeOk(g.local_context[var])
     /\ Datatype(g.local_context[var]) \in DOMAIN Env
     /\ \A k \in DOMAIN Env[Datatype(g.local_context[var])] :
          Env[Datatype(g.local_context[var])][k] \in DOMAIN GlobalContext

\* Goal::case_split, the inner loop over the constructor's arguments
RECURSIVE FreshLoop(_, _, _, _, _)
FreshLoop(new_goal, var, size, con_args, i) ==
  IF i >= Len(con_args) THEN new_goal
  ELSE LET fresh_var == var \o <<ToString(size * 10 + i)>>
           depth == var_depth(fresh_var)
           arg_type == con_args[i + 1]
           g1 == [new_goal EXCEPT !.local_context = CtxInsert(@, fresh_var, arg_type)]
           g2 == add_scrutinee(g1, fresh_var, arg_type, depth)
       IN FreshLoop(g2, var, size, con_args, i + 1)

\* the fresh variables case_split mints for a constructor
FreshVars(var, size, con_args) ==
  [k \in 1..Len(con_args) |-> var \o <<ToString(size * 10 + (k - 1))>>]

\* variant of ChildRewrites that keeps only the lemmas; C9 has to tell the
\* two apart
ChildRewritesOnlyLemmas(rewrites, lemmas, fresh_vars) ==
  IF fresh_vars # <<>> THEN lemmas ELSE rewrites

\* variant of ChildRewrites that adds the lemmas whatever the constructor;
\* C15 has to tell the two apart
ChildRewritesAlways(rewrites, lemmas, fresh_vars) == rewrites \o lemmas

\* if !fresh_vars.is_empty() { new_goal.rewrites.extend(lemmas.clone()) }
ChildRewrites(rewrites, lemmas, fresh_vars) ==
  IF fresh_vars # <<>> THEN rewrites \o lemmas ELSE rewrites

\* Goal::case_split, the body of the loop over constructors: the subgoal
\* for `con`; `self` has its front scrutinee popped already
NewGoal(self, var, var_id, lemmas, con) ==
  LET con_args == Args(GlobalContext[con])
      size == total_size(self.egraph)
      fresh_vars == FreshVars(var, size, con_args)
      g1 == FreshLoop([self EXCEPT !.name = Append(@, [var |-> var, con |-> con])],
                      var, size, con_args, 0)
      con_app == T(con, [k \in DOMAIN fresh_vars |-> Leaf(fresh_vars[k])])
      e1 == AddExpr(g1.egraph, con_app).eg
      con_app_id == LookupExpr(e1, con_app)
      e2 == Rebuild(Union(e1, var_id, con_app_id))
      e3 == remove_node(e2, var, <<>>)
  IN [g1 EXCEPT !.egraph = e3,
                !.local_context = CtxRemove(@, var),
                !.rewrites = ChildRewrites(@, lemmas, fresh_vars)]

\* variant of case_split that walks the constructors front to back; C10
\* has to tell the two apart
case_splitForward(g) ==
  LET lemmas == mk_lemma_rewrites(g)
      var == Head(g.scrutinees)
      self == [g EXCEPT !.scrutinees = Tail(@)]
      var_id == Lookup(g.egraph, var, <<>>)
      cons == Env[Datatype(g.local_context[var])]
  IN [k \in 1..Len(cons) |-> NewGoal(self, var, var_id, lemmas, cons[k])]

\* variant of case_split that synthesizes the lemmas after the pop; C16 has
\* to tell the two apart
case_splitPopFirst(g) ==
  LET var == Head(g.scrutinees)
      self == [g EXCEPT !.scrutinees = Tail(@)]
      lemmas == mk_lemma_rewrites(self)
      var_id == Lookup(g.egraph, var, <<>>)
      cons == Env[Datatype(g.local_context[var])]
  IN [k \in 1..Len(cons) |-> NewGoal(self, var, var_id, lemmas, cons[Len(cons) + 1 - k])]

\* Goal::case_split: the subgoals in the order they are pushed
case_split(g) ==
  LET lemmas == mk_lemma_rewrites(g)
      var == Head(g.scrutinees)
      self == [g EXCEPT !.scrutinees = Tail(@)]
      var_id == Lookup(g.egraph, var, <<>>)
      cons == Env[Datatype(g.local_context[var])]
  IN [k \in 1..Len(cons) |-> NewGoal(self, var, var_id, lemmas, cons[Len(cons) + 1 - k])]

-----------------------------------------------------------------------------
(* The inputs: conjectures (lhs, rhs, params) over Env, with the rewrites  *)
(* R0 of the function definitions.                                         *)

V(s) == Leaf(Sym(s))
W(s) == Leaf(to_wildcard(Sym(s)))
Def(l, r) == [kind |-> "def", name |-> <<l, r>>, searcher |-> l, applier |-> r, condition |-> <<>>]

\* add Z y => y ; add (S x) y => S (add x y)
R0Add ==
  <<Def(T(Sym("add"), <<V("Z"), W("y")>>), W("y")),
    Def(T(Sym("add"), <<T(Sym("S"), <<W("x")>>), W("y")>>),
        T(Sym("S"), <<T(Sym("add"), <<W("x"), W("y")>>)>>))>>

\* app Nil ys => ys
R0App == <<Def(T(Sym("app"), <<V("Nil"), W("ys")>>), W("ys"))>>

\* f x => ite (p x) (f (s x)) c ; ite true x y => x ; ite false x y => y
R0Ite ==
  <<Def(T(Sym("f"), <<W("x")>>),
        T(ITE, <<T(Sym("p"), <<W("x")>>), T(Sym("f"), <<T(Sym("s"), <<W("x")>>)>>), V("c")>>)),
    Def(T(ITE, <<V("true"), W("x"), W("y")>>), W("x")),
    Def(T(ITE, <<V("false"), W("x"), W("y")>>), W("y"))>>

Param(n, ty) == [name |-> n, ty |-> ty]

Conjectures ==
  { \* add x y = add y x
    [lhs |-> T(Sym("add"), <<V("x"), V("y")>>), rhs |-> T(Sym("add"), <<V("y"), V("x")>>),
     params |-> <<Param(Sym("x"), Dt("Nat")), Param(Sym("y"), Dt("Nat"))>>,
     rewrites |-> R0Add],
    \* app xs Nil = xs
    [lhs |-> T(Sym("app"), <<V("xs"), V("Nil")>>), rhs |-> V("xs"),
     params |-> <<Param(Sym("xs"), Dt("List"))>>,
     rewrites |-> R0App],
    \* add Z Z = Z, no parameters
    [lhs |-> T(Sym("add"), <<V("Z"), V("Z")>>), rhs |-> V("Z"),
     params |-> <<>>,
     rewrites |-> R0Add],
    \* add a-b y = add y a-b, a parameter with a hyphen in its name
    [lhs |-> T(Sym("add"), <<Leaf(<<"a", "b">>), V("y")>>),
     rhs |-> T(Sym("add"), <<V("y"), Leaf(<<"a", "b">>)>>),
     params |-> <<Param(<<"a", "b">>, Dt("Nat")), Param(Sym("y"), Dt("Nat"))>>,
     rewrites |-> R0Add],
    \* h e x = x, with a function parameter and one of a type outside Env
    [lhs |-> T(Sym("h"), <<V("e"), V("x")>>), rhs |-> V("x"),
     params |-> <<Param(Sym("h"), Fn(<<Dt("Elem"), Dt("Nat")>>, "Nat")),
                  Param(Sym("e"), Dt("Elem")), Param(Sym("x"), Dt("Nat"))>>,
     rewrites |-> R0Add],
    \* add x Z = x, with a parameter u that occurs on neither side
    [lhs |-> T(Sym("add"), <<V("x"), V("Z")>>), rhs |-> V("x"),
     params |-> <<Param(Sym("u"), Dt("Nat")), Param(Sym("x"), Dt("Nat"))>>,
     rewrites |-> R0Add],
    \* f c = d, no parameters, f defined by a conditional
    [lhs |-> T(Sym("f"), <<V("c")>>), rhs |-> V("d"),
     params |-> <<>>,
     rewrites |-> R0Ite],
    \* f x = x, f defined by a conditional
    [lhs |-> T(Sym("f"), <<V("x")>>), rhs |-> V("x"),
     params |-> <<Param(Sym("x"), Dt("Nat"))>>,
     rewrites |-> R0Ite] }

-----------------------------------------------------------------------------
(* prove: the driver loop *)

NoSubst == [x \in {} |-> 0]

CheckIdle == tuple = <<>> /\ subst = NoSubst /\ fired = "idle"

Init ==
  /\ \E c \in Conjectures :
       /\ goal = top(c.lhs, c.rhs, c.params, c.rewrites)
       /\ state = <<goal>>
  /\ pc = "loop"
  /\ outcome = "NONE"
  /\ open = 1
  /\ CheckIdle

\* Goal::saturate
saturate(g, eg) == [g EXCEPT !.egraph = eg]

\* variant of Pop that drops two goals; C2 has to tell the two apart
PopTwo(st) == SubSeq(st, 1, Len(st) - 2)

\* state.pop()
Pop(st) == SubSeq(st, 1, Len(st) - 1)

\* goal = state.pop().unwrap(); goal = goal.saturate()
PopSaturate ==
  /\ pc = "loop"
  /\ state # <<>>
  /\ \E eg \in SatResults(state[Len(state)]) :
       goal' = saturate(state[Len(state)], eg)
  /\ state' = Pop(state)
  /\ pc' = "saturated"
  /\ UNCHANGED <<outcome, open, tuple, subst, fired>>

\* variant of Discharge that goes on to the split instead of `continue`; C14
\* has to tell the two apart
DischargeToSplit ==
  /\ pc = "saturated"
  /\ done(goal)
  /\ pc' = "ite"
  /\ UNCHANGED <<state, goal, outcome, open, tuple, subst, fired>>

\* if goal.done() { continue }
Discharge ==
  /\ pc = "saturated"
  /\ done(goal)
  /\ pc' = "loop"
  /\ open' = open - 1
  /\ UNCHANGED <<state, goal, outcome, tuple, subst, fired>>

\* goal.split_ite()
SplitIte ==
  /\ pc = "saturated"
  /\ ~done(goal)
  /\ \E guards \in Orders(irreducible_guards(goal)) :
       goal' = split_ite(goal, guards)
  /\ pc' = "ite"
  /\ UNCHANGED <<state, outcome, open, tuple, subst, fired>>

\* variant of ReturnInvalid without the emptiness test; C7 has to tell the
\* two apart
ReturnInvalidAny ==
  /\ pc = "ite"
  /\ outcome' = "INVALID"
  /\ pc' = "returned"
  /\ UNCHANGED <<state, goal, open, tuple, subst, fired>>

\* if goal.scrutinees.is_empty() { return Outcome::Invalid }
ReturnInvalid ==
  /\ pc = "ite"
  /\ goal.scrutinees = <<>>
  /\ outcome' = "INVALID"
  /\ pc' = "returned"
  /\ UNCHANGED <<state, goal, open, tuple, subst, fired>>

\* if goal.scrutinees.front() == BOUND_EXCEEDED { return Outcome::Unknown }
ReturnUnknown ==
  /\ pc = "ite"
  /\ goal.scrutinees # <<>>
  /\ Head(goal.scrutinees) = BOUND_EXCEEDED
  /\ outcome' = "UNKNOWN"
  /\ pc' = "returned"
  /\ UNCHANGED <<state, goal, open, tuple, subst, fired>>

\* goal.case_split(&mut state)
CaseSplit ==
  /\ pc = "ite"
  /\ goal.scrutinees # <<>>
  /\ Head(goal.scrutinees) # BOUND_EXCEEDED
  /\ CaseSplitOk(goal)
  /\ state' = state \o case_split(goal)
  /\ open' = open - 1 + Len(case_split(goal))
  /\ pc' = "loop"
  /\ UNCHANGED <<goal, outcome, tuple, subst, fired>>

\* goal.case_split(&mut state) when an unwrap() fails: the thread panics
CaseSplitPanic ==
  /\ pc = "ite"
  /\ goal.scrutinees # <<>>
  /\ Head(goal.scrutinees) # BOUND_EXCEEDED
  /\ ~CaseSplitOk(goal)
  /\ pc' = "panic"
  /\ UNCHANGED <<state, goal, outcome, open, tuple, subst, fired>>

\* the loop ends with state empty: Outcome::Valid
ReturnValid ==
  /\ pc = "loop"
  /\ state = <<>>
  /\ outcome' = "VALID"
  /\ pc' = "returned"
  /\ UNCHANGED <<state, goal, open, tuple, subst, fired>>

Next ==
  \/ PopSaturate
  \/ Discharge
  \/ SplitIte
  \/ ReturnInvalid
  \/ ReturnUnknown
  \/ CaseSplit
  \/ CaseSplitPanic
  \/ ReturnValid

Spec == Init /\ [][Next]_vars


-----------------------------------------------------------------------------
(* SmallerVar::check on its own: a lemma whose condition holds `tuple` is  *)
(* offered the match substitution `subst` over a fixed e-graph.            *)

MaxTuple == 2

\* the symbols a scrutinee tuple is drawn from
CheckVars == {Sym("x"), Sym("y"), <<"x", "20">>, BOUND_EXCEEDED}

\* the terms of the e-graph, one class each
CheckTerms ==
  <<V("x"), V("y"), Leaf(<<"x", "20">>), Leaf(<<"x", "20", "31">>), Leaf(<<"y", "20">>),
    T(Sym("S"), <<Leaf(<<"x", "20">>)>>), V("Z")>>

CheckEg == Rebuild(AddArgs(EmptyEg, CheckTerms, <<>>).eg)
CheckIds == {Find(CheckEg, n.id) : n \in CheckEg.nodes}

\* extractor.find_best(id).1 for every class
FindBest == [id \in CheckIds |-> CHOOSE t \in BestExprs(CheckEg, id) : TRUE]

Tuples == UNION {[1..n -> CheckVars] : n \in 0..MaxTuple}
Wildcards == {to_wildcard(x) : x \in CheckVars \ {BOUND_EXCEEDED}}

InitCheck ==
  /\ goal = [top(V("x"), V("y"), <<>>, <<>>) EXCEPT !.egraph = CheckEg]
  /\ state = <<>>
  /\ pc = "check"
  /\ outcome = "NONE"
  /\ open = 0
  /\ tuple \in Tuples
  /\ subst = NoSubst
  /\ fired = "idle"

\* the ConditionalApplier asks the condition about this match
ApplyCheck ==
  /\ pc = "check"
  /\ fired = "idle"
  /\ fired' = IF check(tuple, subst, FindBest) THEN "yes" ELSE "no"
  /\ UNCHANGED <<state, goal, pc, outcome, open, tuple, subst>>

\* the searcher offers the same lemma another match
NextMatch ==
  /\ pc = "check"
  /\ fired # "idle"
  /\ \E w \in Wildcards, id \in CheckIds :
       subst' = [x \in (DOMAIN subst) \cup {w} |-> IF x = w THEN id ELSE subst[x]]
  /\ fired' = "idle"
  /\ UNCHANGED <<state, goal, pc, outcome, open, tuple>>

NextCheck ==
  \/ ApplyCheck
  \/ NextMatch

SpecCheck == InitCheck /\ [][NextCheck]_vars

-----------------------------------------------------------------------------
(* Goal::saturate on its own: the runner's loop, run to a fixed point or   *)
(* to its iteration limit, on goals whose rewrites have the shape          *)
(* (op ?x) => rhs; `state` collects the goal saturated once, twice, ...    *)

\* the runner's iteration limit (Runner::default() has 30)
IterLimit == 2

\* how often the goal is saturated in a row
MaxRuns == 2

\* the rewrites (op ?x) => rhs
UnaryRules(rewrites) ==
  {k \in DOMAIN rewrites :
     /\ Len(rewrites[k].searcher.kids) = 1
     /\ IsWildcard(rewrites[k].searcher.kids[1].op)}

\* one iteration of the runner: search, apply, rebuild
Iterate(g, eg) ==
  CHOOSE out \in {Rebuild(e2) :
                    e2 \in {IterLoop(eg, eg, g.rewrites, SetToSeq(UnaryRules(g.rewrites)))}} : TRUE

\* variant of RunLoop that hands back an e-graph with every e-node in a
\* class of its own; C13 has to tell the two apart
RunLoopSplit(g, eg, k) == [eg EXCEPT !.uf = [i \in DOMAIN eg.uf |-> i - 1]]

\* variant of RunLoop that leaves a node of its own in the e-graph on each
\* call; C12 has to tell the two apart
RunLoopStamp(g, eg, k) == Add(eg, <<"run", ToString(Len(eg.uf))>>, <<>>).eg

\* Runner::run: iterate until nothing changes or the limit is reached
RECURSIVE RunLoop(_, _, _)
RunLoop(g, eg, k) ==
  IF k = 0 THEN eg
  ELSE CHOOSE out \in {IF e2 = eg THEN eg ELSE RunLoop(g, e2, k - 1) :
                         e2 \in {Iterate(g, eg)}} : TRUE

\* Goal::saturate with the runner's loop spelled out
saturateRun(g) == saturate(g, RunLoop(g, g.egraph, IterLimit))

\* a chain of definitions a x = b x, b x = c x, ...
ChainOps == <<"a", "b", "c", "d", "e">>
R0Chain ==
  [i \in 1..(Len(ChainOps) - 1) |->
     Def(T(Sym(ChainOps[i]), <<W("x")>>), T(Sym(ChainOps[i + 1]), <<W("x")>>))]

\* the sides of the conjectures: op k and op (op' k)
SatTerms ==
  LET base == {T(Sym(ChainOps[i]), <<V("k")>>) : i \in DOMAIN ChainOps}
  IN base \cup {T(Sym(ChainOps[i]), <<t>>) : i \in DOMAIN ChainOps, t \in base}

SatGoals ==
  {top(l, r, <<>>, R0Chain) : l, r \in SatTerms}
    \cup {top(T(Sym("f"), <<V("c")>>), V("d"), <<>>, R0Ite)}

\* the goals handed to saturate: fresh from top, or with the two sides
\* already in one class
InitSat ==
  /\ goal \in SatGoals \cup {saturate(g, SatProve(g)) : g \in SatGoals}
  /\ state = <<>>
  /\ pc = "run"
  /\ outcome = "NONE"
  /\ open = 0
  /\ CheckIdle

\* goal.saturate(), on the goal or on the result of the last call
Resaturate ==
  /\ pc = "run"
  /\ Len(state) < MaxRuns
  /\ state' = Append(state, saturateRun(IF state = <<>> THEN goal ELSE state[Len(state)]))
  /\ UNCHANGED <<goal, pc, outcome, open, tuple, subst, fired>>

NextSat == Resaturate

SpecSat == InitSat /\ [][NextSat]_vars

-----------------------------------------------------------------------------
(* Properties *)

\* the goals of a run: those on the stack and the one in hand
Goals == {state[i] : i \in DOMAIN state} \cup {goal}

\* the goal in hand is neither discharged nor split
InHand ==
  \/ pc \in {"saturated", "ite", "panic"}
  \/ pc = "returned" /\ outcome \in {"INVALID", "UNKNOWN"}

\* C2: prove returns VALID only with the work stack empty, and then every
\* goal created in the run (the top goal and every child pushed by
\* case_split) has been popped and was discharged or split: `open`, the
\* number of goals created and not yet discharged or split, is always the
\* number of goals on the stack plus the one in hand, and is 0 at VALID.
C2_ValidAllSettled ==
  /\ open = Len(state) + (IF InHand THEN 1 ELSE 0)
  /\ outcome = "VALID" => state = <<>> /\ open = 0

\* VALID is returned after the proof went through nested case splits
C2_Witness == outcome = "VALID" /\ Len(goal.name) >= 2

C4_Terminates ==
  \/ pc = "returned"
  \/ pc \in {"loop", "saturated"}
  \/ /\ pc = "ite"
     /\ \/ goal.scrutinees = <<>>
        \/ Head(goal.scrutinees) = BOUND_EXCEEDED
        \/ CaseSplitOk(goal)

\* the variables of `tuple` the match substitution binds
BoundAt == {i \in DOMAIN tuple : to_wildcard(tuple[i]) \in DOMAIN subst}

\* the name of the expression extracted for the i-th variable of `tuple`
ImageAt(i) == ExprName(FindBest[subst[to_wildcard(tuple[i])]])

\* C5: a lemma whose condition holds the scrutinee tuple (x1,...,xk) fires
\* on a match only if every xi the substitution binds is sent to xi itself
\* or to a strict descendant of xi, and at least one to a strict
\* descendant; so it fires neither under the identity nor when none of the
\* xi is bound, and the test is made for each match that is offered.
C5_SmallerTuple ==
  (pc = "check" /\ fired = "yes") =>
    /\ \A i \in BoundAt : ImageAt(i) = tuple[i] \/ is_descendant(ImageAt(i), tuple[i])
    /\ \E i \in BoundAt : is_descendant(ImageAt(i), tuple[i])

\* the lemma fires on a match that keeps one variable and sends another to
\* a strict descendant
C5_Witness ==
  /\ pc = "check"
  /\ fired = "yes"
  /\ \E i, j \in BoundAt :
       /\ ImageAt(i) = tuple[i]
       /\ is_descendant(ImageAt(j), tuple[j])

\* the names of the parameters of the conjectures
AllParamNames ==
  UNION {{c.params[k].name : k \in DOMAIN c.params} : c \in Conjectures}

\* v was minted by case_split: it extends a parameter's name
Minted(v) == v \notin AllParamNames /\ \E p \in AllParamNames : is_descendant(v, p)

\* C6 as stated: in every goal of a run, no variable minted by case_split
\* and bound in the local context has more than MAX_SPLIT_DEPTH segments.
C6_AtMostMaxSegments ==
  \A g \in Goals : \A v \in DOMAIN g.local_context :
    Minted(v) => Len(v) <= MAX_SPLIT_DEPTH

\* C6, amended: a minted variable that is a scrutinee has at most
\* MAX_SPLIT_DEPTH segments; a minted variable that is only bound in the
\* local context has one segment more than the scrutinee it was split
\* from, so at most MAX_SPLIT_DEPTH + 1 segments, or one more than a
\* parameter.
C6_DepthBound ==
  \A g \in Goals :
    /\ \A k \in DOMAIN g.scrutinees :
         Minted(g.scrutinees[k]) => Len(g.scrutinees[k]) <= MAX_SPLIT_DEPTH
    /\ \A v \in DOMAIN g.local_context :
         Minted(v) => \/ Len(v) <= MAX_SPLIT_DEPTH + 1
                      \/ SubSeq(v, 1, Len(v) - 1) \in AllParamNames

\* a goal binds a minted variable of MAX_SPLIT_DEPTH + 1 segments, and the
\* sentinel stands for it in the queue
C6_Witness ==
  \E g \in Goals :
    /\ \E v \in DOMAIN g.local_context : Minted(v) /\ Len(v) = MAX_SPLIT_DEPTH + 1
    /\ \E k \in DOMAIN g.scrutinees : g.scrutinees[k] = BOUND_EXCEEDED

\* C7: prove returns INVALID exactly when the goal in hand is not done after
\* saturation and its queue is empty once split_ite has run; the verdict is
\* returned there, with the stack left as it is.
C7_InvalidIff ==
  [][/\ (outcome' = "INVALID" /\ outcome # "INVALID") =>
          /\ pc = "ite"
          /\ goal.scrutinees = <<>>
          /\ ~done(goal)
          /\ irreducible_guards(goal) = {}
          /\ pc' = "returned"
          /\ state' = state /\ goal' = goal
     /\ (pc = "ite" /\ goal.scrutinees = <<>>) =>
          /\ outcome' = "INVALID"
          /\ pc' = "returned"
     /\ (pc' = "ite" /\ pc # "ite") => ~done(goal)]_vars

\* INVALID is returned while goals are still on the stack
C7_Witness == outcome = "INVALID" /\ state # <<>>

\* C8: in every goal (after top, after split_ite, every child pushed by
\* case_split) each scrutinee is bound in the goal's local context or is
\* the sentinel.
C8_ScrutineesBound ==
  \A g \in Goals : \A k \in DOMAIN g.scrutinees :
    g.scrutinees[k] \in DOMAIN g.local_context \/ g.scrutinees[k] = BOUND_EXCEEDED

\* after split_ite, a child goal holds a guard variable in front of a
\* variable minted by case_split
C8_Witness ==
  /\ pc = "ite"
  /\ goal.name # <<>>
  /\ \E i, k \in DOMAIN goal.scrutinees :
       /\ i < k
       /\ goal.scrutinees[i][1] = "g"
       /\ Minted(goal.scrutinees[k])

\* C9: a child pushed by case_split has the parent's rewrites followed by
\* nothing or by exactly the lemmas synthesized from the parent, and no
\* step changes the rewrites of a goal that stays on the stack.
C9_RewritesFlowDown ==
  [][/\ \A i \in DOMAIN state :
          i \in DOMAIN state' => state'[i].rewrites = state[i].rewrites
     /\ \A k \in DOMAIN state' :
          k \notin DOMAIN state =>
            \/ state'[k].rewrites = goal.rewrites
            \/ state'[k].rewrites = goal.rewrites \o mk_lemma_rewrites(goal)]_vars

\* two children of one split are on the stack, one with the lemmas and one
\* without
C9_Witness ==
  \E i, j \in DOMAIN state :
    /\ Len(state[i].name) = Len(state[j].name)
    /\ state[i].name # <<>>
    /\ SubSeq(state[i].name, 1, Len(state[i].name) - 1)
         = SubSeq(state[j].name, 1, Len(state[j].name) - 1)
    /\ Len(state[i].rewrites) < Len(state[j].rewrites)

\* the position of a constructor in its datatype's list in Env
ConIndex(con) ==
  CHOOSE k \in UNION {DOMAIN Env[d] : d \in DOMAIN Env} :
    \E d \in DOMAIN Env : k \in DOMAIN Env[d] /\ Env[d][k] = con

\* path p comes before path q in the depth-first order with the
\* first-listed constructor first
Before(p, q) ==
  \E k \in DOMAIN p :
    /\ k \in DOMAIN q
    /\ SubSeq(p, 1, k - 1) = SubSeq(q, 1, k - 1)
    /\ p[k].var = q[k].var
    /\ ConIndex(p[k].con) < ConIndex(q[k].con)

\* C10: the driver works depth first, first-listed constructor first: a
\* goal nearer the top of the stack comes before every goal below it, and
\* the goal in hand comes before every goal on the stack.
C10_DepthFirst ==
  /\ \A i, j \in DOMAIN state : i < j => Before(state[j].name, state[i].name)
  /\ pc \in {"saturated", "ite"} =>
       \A i \in DOMAIN state : Before(goal.name, state[i].name)

\* the goal in hand is a grandchild, with its sibling and the sibling of
\* its parent waiting on the stack
C10_Witness ==
  /\ pc = "saturated"
  /\ Len(goal.name) >= 2
  /\ \E i, j \in DOMAIN state :
       /\ Len(state[i].name) < Len(goal.name)
       /\ Len(state[j].name) = Len(goal.name)

\* a guard variable of split_ite
IsGuard(v) == v[1] = "g"

\* the last Len(q) - n symbols of the queue q
Drop(q, n) == SubSeq(q, n + 1, Len(q))

\* C11: split_ite puts its guard variables in front of the queue it found,
\* the case_split that follows splits on one of them, and case_split
\* appends its fresh variables (or the sentinel) behind the scrutinees
\* already queued, whose order it keeps; so in every queue the guard
\* variables stand before all other scrutinees.
C11_QueueOrder ==
  [][/\ (pc = "saturated" /\ pc' = "ite") =>
          \E n \in 0..Len(goal'.scrutinees) :
            /\ Drop(goal'.scrutinees, n) = goal.scrutinees
            /\ \A i \in 1..n : /\ IsGuard(goal'.scrutinees[i])
                               /\ goal'.scrutinees[i] \notin DOMAIN goal.local_context
     /\ (pc = "ite" /\ goal.scrutinees # <<>> /\ IsGuard(Head(goal.scrutinees))) =>
          /\ Len(state') > Len(state)
          /\ \A k \in DOMAIN state' : k \notin DOMAIN state =>
               state'[k].name[Len(state'[k].name)].var = Head(goal.scrutinees)
     /\ \A k \in DOMAIN state' : k \notin DOMAIN state =>
          LET old == Tail(goal.scrutinees)
              new == state'[k].scrutinees
          IN /\ Len(new) >= Len(old)
             /\ SubSeq(new, 1, Len(old)) = old
             /\ \A i \in DOMAIN new : i > Len(old) =>
                  \/ new[i] = BOUND_EXCEEDED
                  \/ new[i] \notin DOMAIN goal.local_context
     /\ \A g \in Goals : \A i, j \in DOMAIN g.scrutinees :
          (i < j /\ IsGuard(g.scrutinees[j])) => IsGuard(g.scrutinees[i])]_vars

\* split_ite has put two guard variables in front of a datatype scrutinee
C11_Witness ==
  /\ pc = "ite"
  /\ Len(goal.scrutinees) >= 3
  /\ IsGuard(goal.scrutinees[1])
  /\ IsGuard(goal.scrutinees[2])
  /\ ~IsGuard(goal.scrutinees[3])

\* the goal, the goal saturated once, saturated twice, ...
Runs == <<goal>> \o state

\* the e-graph e2 separates no class of e1
Keeps(e1, e2) ==
  \A a, b \in 0..(Len(e1.uf) - 1) :
    Find(e1, a) = Find(e1, b) => Find(e2, a) = Find(e2, b)

\* one more iteration of the runner changes nothing
AtFixedPoint(g) == Iterate(g, g.egraph) = g.egraph

\* C12 as stated: saturate(saturate(g)) has the classes and the done()
\* value of saturate(g) (on the terms of saturate(g)), whether or not the
\* first saturation ended at a fixed point.
C12_Idempotent ==
  Len(state) >= 2 =>
    /\ \A a, b \in 0..(Len(state[1].egraph.uf) - 1) :
         Find(state[1].egraph, a) = Find(state[1].egraph, b)
           <=> Find(state[2].egraph, a) = Find(state[2].egraph, b)
    /\ done(state[1]) = done(state[2])

\* C12, amended: when the first saturation ended at a fixed point,
\* saturate(saturate(g)) has the e-graph of saturate(g); when it ended on
\* the limit, the second saturation may add terms and merge classes, but
\* it separates none and keeps done().
C12_IdempotentAtFixedPoint ==
  Len(state) >= 2 =>
    /\ AtFixedPoint(state[1]) => state[2].egraph = state[1].egraph
    /\ Keeps(state[1].egraph, state[2].egraph)
    /\ done(state[1]) => done(state[2])

\* a first saturation that merged classes, proved the goal and ended at a
\* fixed point, followed by a second one
C12_Witness ==
  /\ Len(state) >= 2
  /\ ~done(goal)
  /\ done(state[1])
  /\ AtFixedPoint(state[1])

\* C13: saturate separates no class: terms in one class before are in one
\* class after, and done(g) implies done(saturate(g)).
C13_Monotone ==
  \A i \in DOMAIN Runs : i + 1 \in DOMAIN Runs =>
    /\ Keeps(Runs[i].egraph, Runs[i + 1].egraph)
    /\ done(Runs[i]) => done(Runs[i + 1])

\* a goal that is done with two different sides has been saturated, and a
\* saturated goal with merged classes has been saturated again
C13_Witness ==
  /\ Len(state) >= 2
  /\ done(goal)
  /\ goal.lhs_id # goal.rhs_id
  /\ state[1].egraph # goal.egraph
  /\ done(state[2])

-----------------------------------------------------------------------------
\* the top goal is the one whose name has no case-split segment
IsTop(g) == g.name = <<>>

\* C14: if the top goal is done() after its first saturation, prove returns
\* VALID after that one saturation, with no split_ite and no case_split,
\* whatever the scrutinee queue holds.  The top goal is saturated with the
\* stack empty; when it is done() the next step leaves the goal as it is
\* (no split_ite), leaves the stack empty (no case_split, nothing left to
\* saturate) and goes back to the head of the loop; and with the stack
\* empty the head of the loop can only return VALID.
C14_DoneAtTop ==
  [][/\ (pc = "saturated" /\ IsTop(goal)) => state = <<>>
     /\ (pc = "saturated" /\ IsTop(goal) /\ done(goal)) =>
          /\ pc' = "loop"
          /\ state' = <<>>
          /\ goal' = goal
          /\ outcome' = "NONE"
     /\ (pc = "loop" /\ IsTop(goal) /\ state = <<>>) =>
          /\ pc' = "returned"
          /\ outcome' = "VALID"
          /\ goal' = goal]_vars

\* VALID is returned for a top goal that was done() after its first
\* saturation and whose queue still holds its parameters
C14_Witness ==
  /\ outcome = "VALID"
  /\ IsTop(goal)
  /\ done(goal)
  /\ goal.scrutinees # <<>>
  /\ Head(goal.scrutinees) # BOUND_EXCEEDED

-----------------------------------------------------------------------------
\* the constructor a child goal was created for
ConOf(g) == g.name[Len(g.name)].con

\* C15: in case_split, the child for a constructor with no argument has
\* exactly the parent's rewrite list, and the child for a constructor with
\* at least one argument has the parent's list followed by every lemma
\* synthesized from the parent, whatever the types of the arguments.
C15_LemmasByArity ==
  [][\A k \in DOMAIN state' :
       k \notin DOMAIN state =>
         IF Args(GlobalContext[ConOf(state'[k])]) = <<>>
           THEN state'[k].rewrites = goal.rewrites
           ELSE state'[k].rewrites = goal.rewrites \o mk_lemma_rewrites(goal)]_vars

\* a split has pushed a child for a constructor with no argument, which has
\* no lemma, and a child for a constructor one of whose arguments is not of
\* the datatype being split, which has a lemma
C15_Witness ==
  \E i, j \in DOMAIN state :
    /\ Len(state[i].name) = 1 /\ Len(state[j].name) = 1
    /\ Args(GlobalContext[ConOf(state[i])]) = <<>>
    /\ \A r \in DOMAIN state[i].rewrites : state[i].rewrites[r].kind # "lemma"
    /\ \E a \in DOMAIN Args(GlobalContext[ConOf(state[j])]) :
         Args(GlobalContext[ConOf(state[j])])[a] # Dt("List")
    /\ ConOf(state[j]) = Sym("Cons")
    /\ \E r \in DOMAIN state[j].rewrites : state[j].rewrites[r].kind = "lemma"

-----------------------------------------------------------------------------
\* the variable a child goal was split on
VarOf(g) == g.name[Len(g.name)].var

\* the rewrites a child received on top of its parent's
Received(child, parent) ==
  SubSeq(child.rewrites, Len(parent.rewrites) + 1, Len(child.rewrites))

\* C16: the scrutinee tuple in the condition of the lemmas synthesized by
\* case_split is the goal's queue after split_ite and before the pop.
\* split_ite leaves the queue as the new guard variables followed by the
\* queue it found; the case_split that follows synthesizes its lemmas with
\* that very queue as their condition tuple, so the tuple starts with the
\* variable being split, which the children's queues no longer hold, and
\* the lemmas a child receives carry that tuple.
C16_ConditionIsQueue ==
  [][/\ (pc = "saturated" /\ pc' = "ite") =>
          \E n \in 0..Len(goal'.scrutinees) :
            /\ Drop(goal'.scrutinees, n) = goal.scrutinees
            /\ \A i \in 1..n : IsGuard(goal'.scrutinees[i])
                               /\ goal'.scrutinees[i] \notin DOMAIN goal.local_context
     /\ \A k \in DOMAIN state' :
          k \notin DOMAIN state =>
            /\ pc = "ite"
            /\ VarOf(state'[k]) = Head(goal.scrutinees)
            /\ \A r \in DOMAIN mk_lemma_rewrites(goal) :
                 mk_lemma_rewrites(goal)[r].condition = goal.scrutinees
            /\ \A r \in DOMAIN Received(state'[k], goal) :
                 /\ Received(state'[k], goal)[r].kind = "lemma"
                 /\ Received(state'[k], goal)[r].condition = goal.scrutinees]_vars

\* case_split has just split the goal in hand on a guard variable that
\* split_ite put in front of a datatype variable, and the lemmas it
\* synthesized carry the whole queue
C16_Witness ==
  /\ pc = "loop"
  /\ Len(goal.scrutinees) >= 2
  /\ IsGuard(goal.scrutinees[1])
  /\ ~IsGuard(goal.scrutinees[2])
  /\ goal.scrutinees[2] # BOUND_EXCEEDED
  /\ state # <<>>
  /\ state[Len(state)].name = Append(goal.name, [var |-> goal.scrutinees[1], con |-> TRUE_SYM])
  /\ mk_lemma_rewrites(goal) # <<>>
  /\ \A r \in DOMAIN mk_lemma_rewrites(goal) :
       mk_lemma_rewrites(goal)[r].condition = goal.scrutinees

-----------------------------------------------------------------------------
\* the leaf e-nodes of a variable
LeafNodes(eg, v) == {n \in eg.nodes : n.op = v /\ n.kids = <<>>}

\* class `id` holds the constructor `con` applied to the leaves `vs`
HoldsConApp(eg, id, con, vs) ==
  \E n \in ClassNodes(eg, id) :
    /\ n.op = con
    /\ Len(n.kids) = Len(vs)
    /\ \A j \in DOMAIN vs :
         \E m \in LeafNodes(eg, vs[j]) : Find(eg, m.id) = Find(eg, n.kids[j])

\* C17: in every child pushed by case_split on scrutinee v with constructor
\* c, v is absent from the child's local context and from its scrutinee
\* queue, the child's e-graph has no leaf e-node v, and the class that
\* contained v holds c(v1,...,vk), whose fresh variables v1..vk are all
\* bound in the child's local context.
C17_ChildShape ==
  [][\A k \in DOMAIN state' :
       k \notin DOMAIN state =>
         LET child == state'[k]
             v == Head(goal.scrutinees)
             var_id == Lookup(goal.egraph, v, <<>>)
             c == ConOf(child)
             vs == FreshVars(v, total_size(goal.egraph), Args(GlobalContext[c]))
         IN /\ VarOf(child) = v
            /\ v \notin DOMAIN child.local_context
            /\ \A i \in DOMAIN child.scrutinees : child.scrutinees[i] # v
            /\ LeafNodes(child.egraph, v) = {}
            /\ HoldsConApp(child.egraph, var_id, c, vs)
            /\ \A j \in DOMAIN vs : vs[j] \in DOMAIN child.local_context]_vars

\* a child for a constructor with an argument is on the stack: it has lost
\* the variable it was split on and holds the constructor applied to a
\* fresh variable that is bound in its local context
C17_Witness ==
  \E i \in DOMAIN state :
    /\ state[i].name # <<>>
    /\ Args(GlobalContext[ConOf(state[i])]) # <<>>
    /\ VarOf(state[i]) \notin DOMAIN state[i].local_context
    /\ LeafNodes(state[i].egraph, VarOf(state[i])) = {}
    /\ \E f \in DOMAIN state[i].local_context :
         /\ Len(f) = Len(VarOf(state[i])) + 1
         /\ SubSeq(f, 1, Len(f) - 1) = VarOf(state[i])
         /\ \E n \in state[i].egraph.nodes :
              /\ n.op = ConOf(state[i])
              /\ \E m \in LeafNodes(state[i].egraph, f) :
                   Find(state[i].egraph, m.id) = Find(state[i].egraph, n.kids[1])

-----------------------------------------------------------------------------
\* C18: every case_split invoked by prove completes without a failed
\* lookup: when prove is about to call case_split (the queue is not empty
\* and its front is not the sentinel), the front scrutinee has a leaf
\* e-node in the goal's e-graph, a binding in the local context whose type
\* is a datatype of Env, and every constructor of that datatype has a type
\* in the global context; and no run ends in a panic.
C18_LookupsSucceed ==
  /\ pc # "panic"
  /\ (pc = "ite" /\ goal.scrutinees # <<>> /\ Head(goal.scrutinees) # BOUND_EXCEEDED) =>
       LET var == Head(goal.scrutinees)
       IN /\ LeafNodes(goal.egraph, var) # {}
          /\ var \in DOMAIN goal.local_context
          /\ DatatypeOk(goal.local_context[var])
          /\ Datatype(goal.local_context[var]) \in DOMAIN Env
          /\ \A k \in DOMAIN Env[Datatype(goal.local_context[var])] :
               Env[Datatype(goal.local_context[var])][k] \in DOMAIN GlobalContext

-----------------------------------------------------------------------------
\* the operators that make a guard class of g reducible
Reducible(g) == {g.scrutinees[k] : k \in DOMAIN g.scrutinees} \cup {TRUE_SYM, FALSE_SYM}

\* the scrutinees that g2 has and g1 has not
Added(g1, g2) ==
  {g2.scrutinees[k] : k \in DOMAIN g2.scrutinees} \ {g1.scrutinees[k] : k \in DOMAIN g1.scrutinees}

\* the variables of vs that have a leaf e-node in class `id` of eg
VarsIn(eg, id, vs) == {v \in vs : \E n \in LeafNodes(eg, v) : Find(eg, n.id) = Find(eg, id)}

\* C19: split_ite adds at most one guard variable per guard class and none
\* for a guard class that holds an e-node whose operator is true, false or
\* a current scrutinee: every scrutinee it adds is a guard variable that
\* sits in a guard class, no two of them share a class, the queue grows by
\* the number of scrutinees added, and a reducible class gets none.
\* Applying split_ite again to the goal it returns, with no saturation in
\* between, finds no irreducible guard and returns the goal as it is: no
\* scrutinee, no binding, no merge.
C19_SplitIteOnce ==
  [][(pc = "saturated" /\ pc' = "ite") =>
       /\ Len(goal'.scrutinees) = Len(goal.scrutinees) + Cardinality(Added(goal, goal'))
       /\ \A v \in Added(goal, goal') :
            /\ IsGuard(v)
            /\ \E id \in IteGuards(goal.egraph) : v \in VarsIn(goal'.egraph, id, {v})
       /\ \A id \in IteGuards(goal.egraph) :
            /\ Cardinality(VarsIn(goal'.egraph, id, Added(goal, goal'))) <= 1
            /\ (\E n \in ClassNodes(goal.egraph, id) : n.op \in Reducible(goal)) =>
                 VarsIn(goal'.egraph, id, Added(goal, goal')) = {}
       /\ irreducible_guards(goal') = {}
       /\ \A guards \in Orders(irreducible_guards(goal')) :
            split_ite(goal', guards) = goal']_vars

\* split_ite has run on a goal with a guard class that true or false
\* reduces and with an irreducible one: the goal is a child of a split on
\* a guard variable, and a new guard variable is at the front of its queue
C19_Witness ==
  /\ pc = "ite"
  /\ goal.name # <<>>
  /\ IsGuard(VarOf(goal))
  /\ goal.scrutinees # <<>>
  /\ IsGuard(Head(goal.scrutinees))
  /\ \E id \in IteGuards(goal.egraph) :
       \E n \in ClassNodes(goal.egraph, id) : n.op \in {TRUE_SYM, FALSE_SYM}
  /\ \E id \in IteGuards(goal.egraph) :
       VarsIn(goal.egraph, id, {Head(goal.scrutinees)}) # {}

====
